---- MODULE Spec2Model ----
(***************************************************************************)
(* debugtimer: TimeAccumulator and DebugTimer (src/debugtimer/debugtimer.py)*)
(*                                                                         *)
(* One DebugTimer, the TimeAccumulators it owns, the clock, the text it    *)
(* prints and the caller's `with` blocks.                                  *)
(*                                                                         *)
(* Numbers.  time.perf_counter() is read as a whole number of clock ticks; *)
(* one tick is one of the six unit coefficients of the report (tick = 3    *)
(* means a millisecond clock).  Arithmetic is exact: `end - start` and     *)
(* `duration += d` on whole ticks, the quotients `duration_sec / coeff`    *)
(* and `duration / num_calls` as rationals n * 10^e / d, and the rendering *)
(* with three decimals rounds the rational half-to-even.  The rounding of  *)
(* binary64 is not part of the model.                                      *)
(*                                                                         *)
(* Names.  The file imports only `time` (line 1) and uses `math` on lines  *)
(* 69, 79 and 85.  Whether `math` resolves depends on the namespace the    *)
(* file is executed in: a plain import leaves it unbound, a session that   *)
(* has imported math before running the file binds it.  mathBound is that  *)
(* fact.  (`Optional` on line 51 is an annotation; the model describes the *)
(* classes once they are defined.)                                         *)
(***************************************************************************)
EXTENDS Integers, Sequences, FiniteSets

VARIABLES
    mathBound,          \* does the global name `math` resolve (lines 1, 69)
    tick,               \* clock resolution: index into the unit coefficients
    now,                \* last value returned by time.perf_counter()
    name,               \* DebugTimer.name
    silent,             \* DebugTimer.silent
    accumulator_names,  \* the constructor argument accumulator_names
    keys,               \* DebugTimer.accumulators: keys in insertion order
    accumulators,       \* DebugTimer.accumulators: key -> TimeAccumulator
    start,              \* DebugTimer.start
    duration_sec,       \* DebugTimer.duration_sec
    output,             \* lines printed so far
    stack,              \* context managers of the enclosing `with` blocks
    exc,                \* exception propagating in the caller
    cycles              \* per accumulator: its acquire/release history

vars == <<mathBound, tick, now, name, silent, accumulator_names, keys,
          accumulators, start, duration_sec, output, stack, exc, cycles>>

-----------------------------------------------------------------------------
(* Bounds *)

\* acquisitions of one accumulator
MaxCalls == 3

\* release calls on one accumulator
MaxReleases == 3

\* accumulator blocks scoped by one caller
MaxScopes == 2

-----------------------------------------------------------------------------
(* Values *)

\* a slot of __slots__ that has not been assigned
Unset == -1

\* no exception
None == "None"

\* values time.perf_counter() returns, in ticks
Readings == {0, 2, 1002}

\* argument values for name
Labels == {None, "loop"}

\* argument values for accumulator_names (None and [] both give <<>>)
NameLists == {<< >>, <<"a">>, <<"b", "a", "b">>}

\* names a caller may subscript self.accumulators with
LookupNames == {"a", "b", "zz"}

\* the context manager entry of the DebugTimer itself
TimerMgr == "timer"

-----------------------------------------------------------------------------
(* Exact arithmetic on n * 10^e / d *)

RECURSIVE Pow10(_)
Pow10(i) == IF i = 0 THEN 1 ELSE 10 * Pow10(i - 1)

\* floor(a / 10^i)
RECURSIVE DivPow10(_, _)
DivPow10(a, i) == IF i = 0 THEN a ELSE DivPow10(a \div 10, i - 1)

\* n / d rounded to the nearest integer, ties to even
RoundHalfEven(n, d) ==
    LET q == n \div d
        r == n % d
    IN  IF 2 * r < d THEN q
        ELSE IF 2 * r > d THEN q + 1
        ELSE IF q % 2 = 0 THEN q ELSE q + 1

\* the unit coefficients in seconds, m * 10^e: 1e-9, 1e-6, 1e-3, 1, 60, 60*60
Coeff == << [m |-> 1, e |-> -9], [m |-> 1, e |-> -6], [m |-> 1, e |-> -3],
            [m |-> 1, e |-> 0],  [m |-> 6, e |-> 1],  [m |-> 36, e |-> 2] >>

\* the list scanned on line 67
UnitsBlock == <<"ns", "us", "ms", "s", "m", "h">>

\* the list scanned on lines 77 and 83
UnitsAcc == <<"ns", "μs", "ms", "s", "m", "h">>

\* k ticks divided by c, in seconds, divided by the i-th coefficient
Scaled(k, c, i) ==
    [n |-> k * Coeff[tick].m, e |-> Coeff[tick].e - Coeff[i].e, d |-> c * Coeff[i].m]

\* x > 1
GtOne(x) ==
    IF x.e >= 0 THEN DivPow10(x.d, x.e) < x.n
    ELSE x.n > 0 /\ x.d <= DivPow10(x.n - 1, -x.e)

\* x < 1000
Lt1000(x) ==
    IF x.e - 3 >= 0 THEN x.d > 0 /\ x.n <= DivPow10(x.d - 1, x.e - 3)
    ELSE DivPow10(x.n, 3 - x.e) < x.d

\* 0 < math.log10(x) < 3, for x > 0
Log10InRange(x) == GtOne(x) /\ Lt1000(x)

\* f"{x:.3f}": the decimal with three digits, as a count of thousandths
Fmt3(x) ==
    IF x.e + 3 >= 0 THEN RoundHalfEven(x.n * Pow10(x.e + 3), x.d)
    ELSE IF DivPow10(2 * x.n, -(x.e + 3)) < x.d THEN 0
    ELSE RoundHalfEven(x.n, x.d * Pow10(-(x.e + 3)))

-----------------------------------------------------------------------------
(* The unit scan and the report of DebugTimer.__exit__ *)

\* math.log10(x): the exception it raises, or None
Log10Raises(x) ==
    IF ~mathBound THEN "NameError"
    ELSE IF x.n <= 0 THEN "ValueError"
    ELSE None

\* the loop `for coeff, unit in [...]` from its i-th entry on, for k / c ticks:
\* the exception raised, or the (duration, unit) left when the loop ends
RECURSIVE Scan(_, _, _, _)
Scan(k, c, units, i) ==
    LET duration == Scaled(k, c, i) IN
    IF Log10Raises(duration) # None
    THEN [raised |-> Log10Raises(duration), duration |-> duration, unit |-> units[i]]
    ELSE IF Log10InRange(duration) \/ i = Len(units)
    THEN [raised |-> None, duration |-> duration, unit |-> units[i]]
    ELSE Scan(k, c, units, i + 1)

\* f"{duration:.3f} {unit}"
DurationFmt(sc) == [milli |-> Fmt3(sc.duration), unit |-> sc.unit]

\* the line printed on line 73
BlockLine(sc) == [text |-> "Code block", name |-> name, took |-> DurationFmt(sc)]

\* the line printed on line 90
AccLine(key, acc, total, per_call) ==
    [text |-> "\tAccumlator", name |-> key, took |-> DurationFmt(total),
     calls |-> acc.num_calls, per_call |-> DurationFmt(per_call)]

\* `if accumulator.num_calls > 0` on line 75
Reported(acc) == acc.num_calls > 0

\* the loop over self.accumulators.items() from the i-th key on:
\* the lines printed and the exception that ended it, if any
RECURSIVE AccReport(_)
AccReport(i) ==
    IF i > Len(keys) THEN [lines |-> << >>, raised |-> None]
    ELSE
      LET acc == accumulators[keys[i]]
          total == Scan(acc.duration, 1, UnitsAcc, 1)
          per_call == Scan(acc.duration, acc.num_calls, UnitsAcc, 1)
          rest == AccReport(i + 1)
      IN  IF ~Reported(acc) THEN rest
          ELSE IF total.raised # None THEN [lines |-> << >>, raised |-> total.raised]
          ELSE IF per_call.raised # None THEN [lines |-> << >>, raised |-> per_call.raised]
          ELSE [lines |-> <<AccLine(keys[i], acc, total, per_call)>> \o rest.lines,
                raised |-> rest.raised]

\* lines 67-90 for a measured duration of k ticks
Report(k) ==
    LET own == Scan(k, 1, UnitsBlock, 1)
        rest == AccReport(1)
    IN  IF own.raised # None THEN [lines |-> << >>, raised |-> own.raised]
        ELSE [lines |-> <<BlockLine(own)>> \o rest.lines, raised |-> rest.raised]

\* a report printed whatever self.silent is
PrintingAlways == TRUE

\* `if not self.silent` on line 66
Printing == ~silent

\* end - self.start on line 64
Elapsed(end, begin) == end - begin

-----------------------------------------------------------------------------
(* TimeAccumulator *)

\* TimeAccumulator.__init__
NewAccumulator == [duration |-> 0, num_calls |-> 0, start |-> Unset]

\* __enter__ that keeps the start of an interval already in progress
AccEnterKeepStart(acc, t) ==
    [acc EXCEPT !.num_calls = @ + 1, !.start = IF @ = Unset THEN t ELSE @]

\* TimeAccumulator.__enter__ with the clock reading t
AccEnter(acc, t) == [acc EXCEPT !.num_calls = @ + 1, !.start = t]

\* __exit__ that never raises
AccExitRaisesNever(acc) == None

\* what TimeAccumulator.__exit__ raises: self.start is read on line 19
AccExitRaises(acc) == IF acc.start = Unset THEN "AttributeError" ELSE None

\* __exit__ that stores the interval instead of adding it
AccExitOverwrite(acc, t) ==
    IF AccExitRaises(acc) # None THEN acc
    ELSE [acc EXCEPT !.duration = t - acc.start]

\* TimeAccumulator.__exit__ with the clock reading t
AccExit(acc, t) ==
    IF AccExitRaises(acc) # None THEN acc
    ELSE [acc EXCEPT !.duration = @ + (t - acc.start)]

\* the history of an accumulator that has not been used
NoCycles == [open |-> Unset, acq |-> Unset, proper |-> TRUE, hist |-> << >>, rels |-> 0]

\* the history after an acquire at reading t
Acquired(cy, t) ==
    [cy EXCEPT !.open = t, !.acq = t, !.proper = @ /\ cy.open = Unset]

\* the history after a release call at reading t
Released(cy, t) ==
    [cy EXCEPT !.open = Unset,
               !.proper = @ /\ cy.open # Unset,
               !.hist = IF cy.open # Unset THEN Append(@, t - cy.open) ELSE @,
               !.rels = @ + 1]

-----------------------------------------------------------------------------
(* DebugTimer.__init__ *)

\* the keys of {name: ... for name in accumulator_names}, in insertion order
RECURSIVE DictKeys(_)
DictKeys(names) ==
    IF names = << >> THEN << >>
    ELSE LET front == DictKeys(SubSeq(names, 1, Len(names) - 1))
             key == names[Len(names)]
         IN  IF \E j \in 1..Len(front) : front[j] = key THEN front
             ELSE Append(front, key)

\* the elements of a sequence
Range(s) == {s[j] : j \in 1..Len(s)}

Init ==
    /\ mathBound \in BOOLEAN
    /\ tick \in 1..Len(Coeff)
    /\ now = 0
    /\ name \in Labels
    /\ silent \in BOOLEAN
    /\ accumulator_names \in NameLists
    /\ keys = DictKeys(accumulator_names)
    /\ accumulators = [key \in Range(accumulator_names) |-> NewAccumulator]
    /\ start = Unset
    /\ duration_sec = Unset
    /\ output = << >>
    /\ stack = << >>
    /\ exc = None
    /\ cycles = [key \in Range(accumulator_names) |-> NoCycles]

config == <<mathBound, tick, name, silent, accumulator_names>>

-----------------------------------------------------------------------------
(* Calls *)

\* a mapping that creates the accumulator of a missing key on demand
SubscriptDefault(accs, key) ==
    [raised |-> None,
     accs |-> [k \in DOMAIN accs \cup {key} |->
                 IF k \in DOMAIN accs THEN accs[k] ELSE NewAccumulator]]

\* self.accumulators[key]: the exception raised and the mapping afterwards
Subscript(accs, key) ==
    [raised |-> IF key \in DOMAIN accs THEN None ELSE "KeyError", accs |-> accs]

\* TimeAccumulator.__enter__ on accumulators[key]
DoAccEnter(accs, key, t) ==
    /\ now' = t
    /\ accumulators' = [accs EXCEPT ![key] = AccEnter(@, t)]
    /\ cycles' = [cycles EXCEPT ![key] = Acquired(@, t)]

\* TimeAccumulator.__exit__ on accumulators[key]; it returns None, so an
\* exception propagating stays, unless __exit__ raises one itself
DoAccExit(key, t) ==
    /\ now' = t
    /\ accumulators' = [accumulators EXCEPT ![key] = AccExit(@, t)]
    /\ cycles' = [cycles EXCEPT ![key] = Released(@, t)]
    /\ exc' = IF AccExitRaises(accumulators[key]) # None
              THEN AccExitRaises(accumulators[key]) ELSE exc

\* DebugTimer.__exit__; it returns None as well
DoTimerExit(t) ==
    LET d == Elapsed(t, start)
        rep == IF Printing THEN Report(d) ELSE [lines |-> << >>, raised |-> None]
    IN  /\ now' = t
        /\ duration_sec' = d
        /\ output' = output \o rep.lines
        /\ exc' = IF rep.raised # None THEN rep.raised ELSE exc

\* the number of accumulator blocks entered so far
RECURSIVE SumCalls(_, _)
SumCalls(accs, ks) ==
    IF ks = {} THEN 0
    ELSE LET key == CHOOSE x \in ks : TRUE
         IN  accs[key].num_calls + SumCalls(accs, ks \ {key})

Scopes(accs) == SumCalls(accs, DOMAIN accs)

\* `with timer:` - DebugTimer.__enter__; the caller scopes the timer once
WithTimer ==
    /\ exc = None
    /\ start = Unset
    /\ \E t \in Readings :
         /\ t >= now
         /\ now' = t
         /\ start' = t
    /\ stack' = Append(stack, TimerMgr)
    /\ UNCHANGED <<config, keys, accumulators, duration_sec, output, exc, cycles>>

\* `with timer.accumulators[key]:` for the name key and the clock reading t -
\* the subscript, then TimeAccumulator.__enter__
WithAccKey(key, t) ==
    /\ exc = None
    /\ IF Subscript(accumulators, key).raised # None
       THEN /\ exc' = Subscript(accumulators, key).raised
            /\ accumulators' = Subscript(accumulators, key).accs
            /\ UNCHANGED <<now, stack, cycles>>
       ELSE /\ t >= now
            /\ Scopes(accumulators) < MaxScopes
            /\ DoAccEnter(Subscript(accumulators, key).accs, key, t)
            /\ stack' = Append(stack, key)
            /\ UNCHANGED exc
    /\ UNCHANGED <<config, keys, start, duration_sec, output>>

WithAcc == \E key \in LookupNames, t \in Readings : WithAccKey(key, t)

\* acc.__enter__() called directly
CallAccEnter ==
    /\ exc = None
    /\ \E key \in DOMAIN accumulators, t \in Readings :
         /\ t >= now
         /\ accumulators[key].num_calls < MaxCalls
         /\ DoAccEnter(accumulators, key, t)
    /\ UNCHANGED <<config, keys, start, duration_sec, output, stack, exc>>

\* acc.__exit__(None, None, None) called directly, for the key and reading
CallAccExitKey(key, t) ==
    /\ exc = None
    /\ t >= now
    /\ cycles[key].rels < MaxReleases
    /\ DoAccExit(key, t)
    /\ UNCHANGED <<config, keys, start, duration_sec, output, stack>>

CallAccExit == \E key \in DOMAIN accumulators, t \in Readings : CallAccExitKey(key, t)

\* the body of the innermost `with` block raises
Raise ==
    /\ exc = None
    /\ stack # << >>
    /\ exc' = "Fault"
    /\ UNCHANGED <<config, now, keys, accumulators, start, duration_sec, output,
                   stack, cycles>>

\* the innermost `with` block, one of an accumulator, is left normally or by
\* the exception propagating: __exit__ runs
LeaveAcc ==
    /\ stack # << >>
    /\ stack[Len(stack)] # TimerMgr
    /\ \E t \in Readings :
         /\ t >= now
         /\ DoAccExit(stack[Len(stack)], t)
    /\ stack' = SubSeq(stack, 1, Len(stack) - 1)
    /\ UNCHANGED <<config, keys, start, duration_sec, output>>

\* the same for the `with` block of the timer
LeaveTimer ==
    /\ stack # << >>
    /\ stack[Len(stack)] = TimerMgr
    /\ \E t \in Readings :
         /\ t >= now
         /\ DoTimerExit(t)
    /\ stack' = SubSeq(stack, 1, Len(stack) - 1)
    /\ UNCHANGED <<config, keys, accumulators, start, cycles>>

\* the exception has left the outermost `with` block; the caller handles it
Handle ==
    /\ stack = << >>
    /\ exc # None
    /\ exc' = None
    /\ UNCHANGED <<config, now, keys, accumulators, start, duration_sec, output,
                   stack, cycles>>

\* a timer scoped around a region in which accumulators are scoped
Next ==
    \/ WithTimer
    \/ WithAcc
    \/ Raise
    \/ LeaveAcc
    \/ LeaveTimer
    \/ Handle

Spec == Init /\ [][Next]_vars

\* accumulators called in any order
NextAcc ==
    \/ CallAccEnter
    \/ CallAccExit
    \/ Handle

\* the accumulators of DebugTimer(accumulator_names=...), on a plain import
InitAcc == Init /\ ~mathBound /\ tick = 1 /\ name = None /\ ~silent

SpecAcc == InitAcc /\ [][NextAcc]_vars

TypeOK ==
    /\ now \in Readings
    /\ start \in Readings \cup {Unset}
    /\ \A key \in DOMAIN accumulators : accumulators[key].start \in Readings \cup {Unset}

-----------------------------------------------------------------------------
(* Properties of TimeAccumulator, under SpecAcc *)

\* the permutations of 1..n
Perms(n) == {f \in [1..n -> 1..n] : \A i, j \in 1..n : f[i] = f[j] => i = j}

\* s[f[1]] + ... + s[f[n]]
RECURSIVE SumIn(_, _, _)
SumIn(s, f, n) == IF n = 0 THEN 0 ELSE SumIn(s, f, n - 1) + s[f[n]]

\* the accumulator has only been through complete acquire/release cycles
ProperlyUsed(key) == cycles[key].proper /\ cycles[key].open = Unset

C5_ZeroCallsZeroDuration ==
    \A key \in DOMAIN accumulators :
      accumulators[key].num_calls = 0 => accumulators[key].duration = 0

\* a release was called, after a clock advance, on an accumulator never acquired
C5_Witness ==
    \E key \in DOMAIN accumulators :
      /\ accumulators[key].num_calls = 0
      /\ cycles[key].rels > 0
      /\ now > 0

\* a step that is a release call on the accumulator
ReleaseCalled(key) == cycles'[key].rels = cycles[key].rels + 1

\* a step that is an acquire call on the accumulator
AcquireCalled(key) == accumulators'[key].num_calls = accumulators[key].num_calls + 1

\* C6 as claimed: no misuse of an accumulator raises: a release without a
\* prior acquire, a second acquire, a second release all complete.
C6_MisuseNeverRaises ==
    [][\A key \in DOMAIN accumulators :
         (ReleaseCalled(key) \/ AcquireCalled(key)) => exc' = None]_vars

\* C6 as amended: an acquire always completes, also while an interval is in
\* progress; a release after at least one acquire completes and adds the time
\* since the most recent acquire, also when that interval was released before;
\* a release on an accumulator never acquired raises AttributeError and leaves
\* duration and num_calls as they were.
C6_MisuseOutcome ==
    [][\A key \in DOMAIN accumulators :
         /\ AcquireCalled(key) =>
              /\ exc' = None
              /\ accumulators'[key].duration = accumulators[key].duration
         /\ ReleaseCalled(key) =>
              IF accumulators[key].num_calls = 0
              THEN /\ exc' = "AttributeError"
                   /\ accumulators'[key] = accumulators[key]
              ELSE /\ exc' = None
                   /\ accumulators'[key].num_calls = accumulators[key].num_calls
                   /\ accumulators'[key].duration =
                        accumulators[key].duration + (now' - cycles[key].acq)]_vars

\* one acquire, then two releases at different times, nothing raised
C6_Witness ==
    \E key \in DOMAIN accumulators :
      /\ accumulators[key].num_calls = 1
      /\ cycles[key].rels = 2
      /\ Len(cycles[key].hist) = 1
      /\ accumulators[key].duration > cycles[key].hist[1]
      /\ exc = None

-----------------------------------------------------------------------------
(* Properties of DebugTimer, under Spec *)

\* a step in which the `with` block of the timer is left
TimerExits ==
    /\ stack # << >>
    /\ stack[Len(stack)] = TimerMgr
    /\ stack' = SubSeq(stack, 1, Len(stack) - 1)

\* a step in which a `with` block of the accumulator is left
AccExits(key) ==
    /\ stack # << >>
    /\ stack[Len(stack)] = key
    /\ stack' = SubSeq(stack, 1, Len(stack) - 1)

\* the names supplied at construction, each once, in the order supplied
RECURSIVE Supplied(_, _)
Supplied(names, i) ==
    IF i > Len(names) THEN << >>
    ELSE IF \E j \in 1..(i - 1) : names[j] = names[i] THEN Supplied(names, i + 1)
    ELSE <<names[i]>> \o Supplied(names, i + 1)

\* those of them whose accumulator was acquired
Invoked(key) == accumulators[key].num_calls > 0

ExpectedNames == SelectSeq(Supplied(accumulator_names, 1), Invoked)

\* the lines the step printed
Printed == SubSeq(output', Len(output) + 1, Len(output'))

\* C2 as claimed: the release of a non-silent timer prints the timer's own
\* line, then one line for each accumulator with num_calls > 0, in the order
\* the names were supplied, and nothing else.
C2_ReportLines ==
    [][(TimerExits /\ ~silent) =>
         /\ Len(Printed) = 1 + Len(ExpectedNames)
         /\ Printed[1].text = "Code block"
         /\ \A i \in 1..Len(ExpectedNames) :
              /\ Printed[1 + i].text = "\tAccumlator"
              /\ Printed[1 + i].name = ExpectedNames[i]]_vars

\* x = 1
EqOne(x) == ~GtOne(x) /\ ~Lt1000([x EXCEPT !.e = @ + 3])

\* the value f"{1.0:.3f} {unit}" of the j-th unit
OneOf(units, j) == [milli |-> 1000, unit |-> units[j]]

\* C3 as claimed: a duration of exactly 1000 ns, 1000 us or 1000 ms is shown
\* as 1.000 of the next larger unit - the timer's duration, the total of each
\* accumulator and its average per call.
C3_BoundaryNextUnit ==
    [][(TimerExits /\ ~silent) =>
         \A j \in 2..4 :
           /\ EqOne(Scaled(now' - start, 1, j)) =>
                /\ Len(Printed) >= 1
                /\ Printed[1].took = OneOf(UnitsBlock, j)
           /\ \A i \in 1..Len(ExpectedNames) :
                LET acc == accumulators[ExpectedNames[i]] IN
                /\ EqOne(Scaled(acc.duration, 1, j)) =>
                     /\ Len(Printed) >= 1 + i
                     /\ Printed[1 + i].took = OneOf(UnitsAcc, j)
                /\ EqOne(Scaled(acc.duration, acc.num_calls, j)) =>
                     /\ Len(Printed) >= 1 + i
                     /\ Printed[1 + i].per_call = OneOf(UnitsAcc, j)]_vars

\* no unit gives k / c ticks a magnitude strictly between 1 and 1000
NoUnitFits(k, c) == \A i \in 1..Len(Coeff) : ~Log10InRange(Scaled(k, c, i))

\* C4 as claimed: the release of a non-silent timer raises nothing, whatever
\* was measured, and a duration that is 0 or fits no unit is shown in hours.
C4_ReleaseNeverRaises ==
    [][(TimerExits /\ ~silent) =>
         /\ exc' = exc
         /\ Len(Printed) = 1 + Len(ExpectedNames)
         /\ NoUnitFits(now' - start, 1) => Printed[1].took.unit = "h"
         /\ \A i \in 1..Len(ExpectedNames) :
              LET acc == accumulators[ExpectedNames[i]] IN
              /\ NoUnitFits(acc.duration, 1) => Printed[1 + i].took.unit = "h"
              /\ NoUnitFits(acc.duration, acc.num_calls) =>
                   Printed[1 + i].per_call.unit = "h"]_vars

\* C7: subscripting the accumulators with a name that was not supplied at
\* construction raises KeyError and leaves the mapping as it was, and the
\* keys are always exactly the names supplied.
C7_LookupFails ==
    /\ [](DOMAIN accumulators = Range(accumulator_names))
    /\ [][\A key \in LookupNames \ Range(accumulator_names), t \in Readings :
            WithAccKey(key, t) =>
              /\ exc' = "KeyError"
              /\ accumulators' = accumulators]_vars

\* a lookup has failed on a timer with two accumulators
C7_Witness ==
    /\ exc = "KeyError"
    /\ Cardinality(DOMAIN accumulators) = 2

\* C8 as claimed: when a fault leaves a `with` block, the accumulator adds the
\* interval, the timer stores its duration and, unless silent, prints its
\* report, and the fault goes on to the caller.
C8_ReleaseOnFault ==
    [][exc = "Fault" =>
         /\ \A key \in DOMAIN accumulators :
              AccExits(key) =>
                /\ accumulators'[key].duration =
                     accumulators[key].duration + (now' - accumulators[key].start)
                /\ exc' = "Fault"
         /\ TimerExits =>
              /\ duration_sec' = now' - start
              /\ ~silent => Len(Printed) >= 1
              /\ exc' = "Fault"]_vars

\* C9: a silent timer never prints, and its release stores the clock at
\* release minus the clock at acquire and raises nothing.
C9_SilentPrintsNothing ==
    /\ [](silent => output = << >>)
    /\ [][(TimerExits /\ silent) =>
            /\ duration_sec' = now' - start
            /\ exc' = exc]_vars

\* a silent timer released after a region in which an accumulator ran twice
C9_Witness ==
    /\ silent
    /\ mathBound
    /\ duration_sec > 0
    /\ start > 0
    /\ \E key \in DOMAIN accumulators :
         /\ accumulators[key].num_calls >= 2
         /\ accumulators[key].duration > 0

\* C10 as claimed: when some unit gives the duration a magnitude strictly
\* between 1 and 1000, the first such unit of the list is the one shown.
C10_FirstFittingUnit ==
    [][(TimerExits /\ ~silent) =>
         \A i \in 1..Len(Coeff) :
           (/\ Log10InRange(Scaled(now' - start, 1, i))
            /\ \A j \in 1..(i - 1) : ~Log10InRange(Scaled(now' - start, 1, j))) =>
             /\ Len(Printed) >= 1
             /\ Printed[1].took.unit = UnitsBlock[i]
             /\ Printed[1].took.milli = Fmt3(Scaled(now' - start, 1, i))
             /\ Printed[1].took.milli > 1000
             /\ Printed[1].took.milli < 1000000]_vars

====
